---- MODULE Spec2Model ----
(***************************************************************************)
(* Configuration loading of the Playwright test runner: defineConfig (the  *)
(* fragment merger), validateConfig / validateProject / validateTestOptions *)
(* (the schema validator with first-error diagnostics), loadConfig (load,   *)
(* validate, construct) and resolveConfigLocation (the config file search). *)
(*                                                                         *)
(* JavaScript values are tagged records [t |-> <typeof-like tag>, v |-> _]: *)
(* the code branches on Array.isArray, typeof and truthiness, so the tag is *)
(* part of every value.  A JavaScript object is a function from its own     *)
(* enumerable keys to values; the symbol key kDefineConfigWasUsed is the    *)
(* key "kDefineConfigWasUsed" (object spread copies own enumerable symbol   *)
(* keys like string keys).                                                  *)
(***************************************************************************)
EXTENDS Integers, Sequences, FiniteSets, TLC

VARIABLES
    configs,     \* defineConfig: the rest arguments `configs`
    i,           \* defineConfig: the loop index
    result,      \* defineConfig: the accumulator `result`
    prevProjects,\* defineConfig: `prevProjects` of the latest loop iteration
    config,      \* validateConfig: the candidate `config`
    use,         \* validateTestOptions: `use` of the latest call
    index,       \* validateConfig: the index of config.projects.forEach
    error,       \* the error thrown by validateConfig, NoError while none is
    checks,      \* the titles of the checks validateConfig has run, in order
    validations, \* how many times validateConfig was entered
    disk,        \* the filesystem: the paths of its directories and of its files
    configFile,  \* resolveConfigLocation: the argument `configFile`
    location,    \* loadConfig: the argument `location`
    fullConfig,  \* loadConfig: `fullConfig`, NoFullConfig until it is constructed
    transform,   \* what setTransformConfig and the ESM loader were given
    pc           \* position of the running call

mergeVars == <<configs, i, result, prevProjects>>

validateVars == <<config, use, index, error, checks, validations>>

loadVars == <<disk, configFile, location, fullConfig, transform>>

vars == <<configs, i, result, prevProjects, config, use, index, error, checks,
          validations, disk, configFile, location, fullConfig, transform, pc>>

-----------------------------------------------------------------------------
(* JavaScript values *)

Undef == [t |-> "undefined"]
Null == [t |-> "null"]
Bool(b) == [t |-> "boolean", v |-> b]
Num(n) == [t |-> "number", v |-> n]
Str(s) == [t |-> "string", v |-> s]
Obj(f) == [t |-> "object", v |-> f]
Arr(s) == [t |-> "array", v |-> s]

EmptyObj == [k \in {} |-> Undef]

\* JavaScript truthiness (`x ? .. : ..`, `!x`, `x || y`).
Truthy(x) ==
    CASE x.t = "undefined" -> FALSE
      [] x.t = "null" -> FALSE
      [] x.t = "boolean" -> x.v
      [] x.t = "number" -> x.v # 0
      [] x.t = "string" -> x.v # ""
      [] x.t = "path" -> x.abs \/ x.v # <<>>
      [] OTHER -> TRUE

IsArray(x) == x.t = "array"

\* Own enumerable properties, as object spread `...x` sees them: spreading
\* undefined or null contributes nothing.
Fields(x) == IF x.t = "object" THEN x.v ELSE EmptyObj

Keys(x) == DOMAIN Fields(x)

\* Property read `x.k`: undefined when x has no own key k.
Get(x, k) == IF k \in Keys(x) THEN Fields(x)[k] ELSE Undef

\* The object literal { ...f, ...g } on two property maps.
Spread2(f, g) ==
    [k \in (DOMAIN f) \cup (DOMAIN g) |-> IF k \in DOMAIN g THEN g[k] ELSE f[k]]

\* `x || []` iterated with for..of / spread as an array.
OrEmpty(x) == IF Truthy(x) THEN x.v ELSE <<>>

-----------------------------------------------------------------------------
(* Paths and the filesystem: path.resolve, path.dirname, fs.existsSync,     *)
(* fs.statSync, process.cwd().  A path string is kept as its segments; the  *)
(* empty string is the relative path without segments.                      *)

Path(abs, segs) == [t |-> "path", abs |-> abs, v |-> segs]

\* The segments of the path strings that occur as values of a configuration.
ParsePath(s) ==
    CASE s = "" -> Path(FALSE, <<>>)
      [] s = "./tsconfig.json" -> Path(FALSE, <<".", "tsconfig.json">>)
      [] s = "../tsconfig.json" -> Path(FALSE, <<"..", "tsconfig.json">>)
      [] OTHER -> Path(FALSE, <<s>>)

ToPath(x) == IF x.t = "path" THEN x ELSE ParsePath(x.v)

\* process.cwd()
Cwd == Path(TRUE, <<"repo">>)

\* Path normalisation: "." and empty segments vanish, ".." removes the segment
\* before it (and nothing at the root).
RECURSIVE Normalize(_, _)
Normalize(segs, out) ==
    IF segs = <<>> THEN out
    ELSE IF Head(segs) \in {".", ""} THEN Normalize(Tail(segs), out)
    ELSE IF Head(segs) = ".."
    THEN Normalize(Tail(segs), IF out = <<>> THEN out ELSE SubSeq(out, 1, Len(out) - 1))
    ELSE Normalize(Tail(segs), Append(out, Head(segs)))

\* path.resolve(...ps): an absolute argument restarts the result, a relative
\* one continues it; the working directory is the start.
RECURSIVE ResolveFrom(_, _)
ResolveFrom(acc, ps) ==
    IF ps = <<>> THEN Path(TRUE, acc)
    ELSE ResolveFrom(IF Head(ps).abs THEN Normalize(Head(ps).v, <<>>)
                     ELSE Normalize(Head(ps).v, acc),
                     Tail(ps))

PathResolve(ps) == ResolveFrom(Cwd.v, ps)

\* path.dirname of an absolute path
PathDirname(p) == Path(TRUE, IF p.v = <<>> THEN <<>> ELSE SubSeq(p.v, 1, Len(p.v) - 1))

\* fs.existsSync(p): true of an entry of any kind
ExistsSync(d, p) == p.v \in d.dirs \cup d.files

\* fs.statSync(p).isDirectory()
IsDirectory(d, p) == p.v \in d.dirs

-----------------------------------------------------------------------------
(* resolveConfigLocation, resolveConfigFile *)

\* Mutant of Extensions: .js is tried before .ts.
ExtensionsJsFirst == <<".js", ".ts", ".mts", ".mjs", ".cts", ".cjs">>

Extensions == <<".ts", ".js", ".mts", ".mjs", ".cts", ".cjs">>

\* path.resolve(directory, 'playwright.config' + ext)
ConfigFileIn(directory, ext) ==
    PathResolve(<<directory, Path(FALSE, <<"playwright.config" \o ext>>)>>)

\* resolveConfigFileFromDirectory: the loop over the extensions from the n-th.
RECURSIVE ResolveConfigFileFromDirectory(_, _, _)
ResolveConfigFileFromDirectory(d, directory, n) ==
    IF n > Len(Extensions) THEN Undef
    ELSE IF ExistsSync(d, ConfigFileIn(directory, Extensions[n]))
    THEN ConfigFileIn(directory, Extensions[n])
    ELSE ResolveConfigFileFromDirectory(d, directory, n + 1)

\* Mutant of ResolveConfigFile: an explicitly given file must carry the name
\* playwright.config.<ext>, any other file resolves to no config file.
ResolveConfigFileFiltered(d, configFileOrDirectory) ==
    IF IsDirectory(d, configFileOrDirectory)
    THEN ResolveConfigFileFromDirectory(d, configFileOrDirectory, 1)
    ELSE IF \E n \in 1..Len(Extensions) :
                configFileOrDirectory.v[Len(configFileOrDirectory.v)]
                    = "playwright.config" \o Extensions[n]
    THEN configFileOrDirectory
    ELSE Undef

\* resolveConfigFile for a path that exists.
ResolveConfigFile(d, configFileOrDirectory) ==
    IF IsDirectory(d, configFileOrDirectory)
    THEN ResolveConfigFileFromDirectory(d, configFileOrDirectory, 1)
    ELSE configFileOrDirectory

\* configFile ? path.resolve(process.cwd(), configFile) : process.cwd()
ConfigFileOrDirectory(cf) == IF Truthy(cf) THEN PathResolve(<<Cwd, cf>>) ELSE Cwd

\* The ConfigLocation resolveConfigLocation returns.
ConfigLocation(resolvedConfigFile, configFileOrDirectory) ==
    [resolvedConfigFile |-> resolvedConfigFile,
     configDir |-> IF Truthy(resolvedConfigFile) THEN PathDirname(resolvedConfigFile)
                   ELSE configFileOrDirectory]

-----------------------------------------------------------------------------
(* defineConfig *)

kDefineConfigWasUsed == "kDefineConfigWasUsed"

\* Mutant of ShallowMerge: the fragment's sub-object replaces the accumulator's.
ShallowMergeReplaces(r, c, k) == Obj(Fields(Get(c, k)))

\* { ...result.k, ...config.k } for k in expect, use, build.
ShallowMerge(r, c, k) == Obj(Spread2(Fields(Get(r, k)), Fields(Get(c, k))))

\* Mutant of WebServerList: a single descriptor is not wrapped into a list.
WebServerListDropsScalar(w) == IF IsArray(w) THEN w.v ELSE <<>>

\* Array.isArray(w) ? w : (w ? [w] : [])
WebServerList(w) == IF IsArray(w) THEN w.v ELSE (IF Truthy(w) THEN <<w>> ELSE <<>>)

WebServerConcat(r, c) ==
    Arr(WebServerList(Get(r, "webServer")) \o WebServerList(Get(c, "webServer")))

\* Mutant of MergedObject: the accumulator's own top-level keys are not spread.
MergedObjectDropsResult(r, c) ==
    Obj(Spread2(Fields(c),
                [expect |-> ShallowMerge(r, c, "expect"),
                 use |-> ShallowMerge(r, c, "use"),
                 build |-> ShallowMerge(r, c, "build"),
                 webServer |-> WebServerConcat(r, c)]))

\* The object literal assigned to `result` in the loop body.
MergedObject(r, c) ==
    Obj(Spread2(Spread2(Fields(r), Fields(c)),
                [expect |-> ShallowMerge(r, c, "expect"),
                 use |-> ShallowMerge(r, c, "use"),
                 build |-> ShallowMerge(r, c, "build"),
                 webServer |-> WebServerConcat(r, c)]))

\* A JavaScript Map, kept as the sequence of its <<key, value>> entries in
\* insertion order.
MapHas(m, k) == \E n \in 1..Len(m) : m[n][1] = k

MapGet(m, k) ==
    IF MapHas(m, k) THEN m[CHOOSE n \in 1..Len(m) : m[n][1] = k][2] ELSE Undef

\* Mutant of MapSet: every set appends an entry, also for a key already present.
MapSetAppends(m, k, x) == Append(m, <<k, x>>)

\* Map.prototype.set: an existing key keeps its position and takes the new value.
MapSet(m, k, x) ==
    IF MapHas(m, k)
    THEN [n \in 1..Len(m) |-> IF m[n][1] = k THEN <<k, x>> ELSE m[n]]
    ELSE Append(m, <<k, x>>)

MapDelete(m, k) == SelectSeq(m, LAMBDA e : e[1] # k)

MapValues(m) == [n \in 1..Len(m) |-> m[n][2]]

\* for (const project of config.projects || []) projectOverrides.set(project.name, project)
RECURSIVE ProjectOverrides(_, _)
ProjectOverrides(ps, m) ==
    IF ps = <<>> THEN m
    ELSE ProjectOverrides(Tail(ps), MapSet(m, Get(Head(ps), "name"), Head(ps)))

\* Mutant of MergedProject: the override's use replaces the base project's use.
MergedProjectUseReplaced(project, projectOverride) ==
    Obj(Spread2(Fields(project), Fields(projectOverride)))

\* { ...project, ...projectOverride, use: { ...project.use, ...projectOverride.use } }
MergedProject(project, projectOverride) ==
    Obj(Spread2(Spread2(Fields(project), Fields(projectOverride)),
                [use |-> ShallowMerge(project, projectOverride, "use")]))

\* The loop over prevProjects, then projects.push(...projectOverrides.values()).
RECURSIVE MergeProjects(_, _, _)
MergeProjects(prev, m, projects) ==
    IF prev = <<>> THEN projects \o MapValues(m)
    ELSE LET project == Head(prev)
             projectOverride == MapGet(m, Get(project, "name"))
         IN  IF Truthy(projectOverride)
             THEN MergeProjects(Tail(prev), MapDelete(m, Get(project, "name")),
                                Append(projects, MergedProject(project, projectOverride)))
             ELSE MergeProjects(Tail(prev), m, Append(projects, project))

\* Mutant of DefineConfigStep: the projects of the first fragment are the base
\* of every step.
DefineConfigStepFirstBase(r, c) ==
    LET prev == Get(configs[1], "projects")
        merged == MergedObject(r, c)
    IN  IF ~Truthy(Get(merged, "projects")) /\ ~Truthy(Get(c, "projects"))
        THEN merged
        ELSE Obj(Spread2(Fields(merged),
                 [projects |-> Arr(MergeProjects(OrEmpty(prev),
                                      ProjectOverrides(OrEmpty(Get(c, "projects")), <<>>),
                                      <<>>))]))

\* One iteration of the loop of defineConfig: `r` is result, `c` is configs[i].
DefineConfigStep(r, c) ==
    LET prev == Get(r, "projects")
        merged == MergedObject(r, c)
    IN  IF ~Truthy(Get(merged, "projects")) /\ ~Truthy(Get(c, "projects"))
        THEN merged
        ELSE Obj(Spread2(Fields(merged),
                 [projects |-> Arr(MergeProjects(OrEmpty(prev),
                                      ProjectOverrides(OrEmpty(Get(c, "projects")), <<>>),
                                      <<>>))]))

\* Mutant of SetMarker: the result is returned without the marker.
SetMarkerSkipped(r) == r

\* result[kDefineConfigWasUsed] = true
SetMarker(r) == Obj(Spread2(Fields(r), [kDefineConfigWasUsed |-> Bool(TRUE)]))

\* Mutant of FirstResult: the fold starts from an empty object.
FirstResultEmpty(cs) == Obj(EmptyObj)

\* let result = configs[0]
FirstResult(cs) == cs[1]

\* defineConfig as a function of its arguments.
RECURSIVE DefineConfigFold(_, _, _)
DefineConfigFold(r, cs, n) ==
    IF n > Len(cs) THEN r ELSE DefineConfigFold(DefineConfigStep(r, cs[n]), cs, n + 1)

DefineConfig(cs) == SetMarker(DefineConfigFold(FirstResult(cs), cs, 2))

-----------------------------------------------------------------------------
(* The schemas: what testConfigSchema.parse and testOptionsSchema.parse report *)

RegExp(src) == [t |-> "regexp", v |-> src]

\* typeof x === 'object' (true of null, arrays and RegExp objects too)
TypeofObject(x) == x.t \in {"object", "array", "null", "regexp"}

\* A schema issue: its code, its path and the message after "Invalid input: ".
Issue(code, path, detail) == [code |-> code, path |-> path, detail |-> detail]

\* issue.message: the wrong-type message carries the prefix "Invalid input: ".
IssueMessage(issue) ==
    IF issue.code = "invalid_type" THEN "Invalid input: " \o issue.detail ELSE issue.detail

\* The issues of an object's field are reported under the field's key.
Under(k, issues) ==
    [n \in 1..Len(issues) |-> [issues[n] EXCEPT !.path = <<k>> \o @]]

\* zod.boolean().optional()
BooleanIssues(x) ==
    IF x.t \in {"undefined", "boolean"} THEN <<>>
    ELSE <<Issue("invalid_type", <<>>, "expected boolean")>>

\* zod.string().optional()
StringIssues(x) ==
    IF x.t \in {"undefined", "string"} THEN <<>>
    ELSE <<Issue("invalid_type", <<>>, "expected string")>>

\* zod.enum([...]).optional()
EnumIssues(x, allowed) ==
    IF x.t = "undefined" \/ (x.t = "string" /\ x.v \in allowed) THEN <<>>
    ELSE <<Issue("invalid_value", <<>>, "Invalid option")>>

\* zod.number().nonnegative().optional()
NonnegativeIssues(x) ==
    IF x.t = "undefined" THEN <<>>
    ELSE IF x.t # "number" THEN <<Issue("invalid_type", <<>>, "expected number")>>
    ELSE IF x.v < 0 THEN <<Issue("too_small", <<>>, "Too small: expected number to be >=0")>>
    ELSE <<>>

\* zod.number().positive().optional()
PositiveIssues(x) ==
    IF x.t = "undefined" THEN <<>>
    ELSE IF x.t # "number" THEN <<Issue("invalid_type", <<>>, "expected number")>>
    ELSE IF x.v <= 0 THEN <<Issue("too_small", <<>>, "Too small: expected number to be >0")>>
    ELSE <<>>

\* What an object schema reports for keys it does not declare: nothing when it
\* is loose (or strips them), an issue when it is strict.
UnknownKeyIssues(x, declared, mode) ==
    IF mode = "strict" /\ Keys(x) \ declared # {}
    THEN <<Issue("unrecognized_keys", <<>>, "Unrecognized key")>>
    ELSE <<>>

\* launchOptionsSchema, the field timeout.
LaunchOptionsIssues(x) ==
    IF x.t = "undefined" THEN <<>>
    ELSE IF x.t # "object" THEN <<Issue("invalid_type", <<>>, "expected object")>>
    ELSE Under("timeout", PositiveIssues(Get(x, "timeout")))

\* zod.number().positive(), not optional
RequiredPositiveIssues(x) ==
    IF x.t = "undefined" THEN <<Issue("invalid_type", <<>>, "expected number")>>
    ELSE PositiveIssues(x)

\* viewportSchema
ViewportSchemaIssues(x) ==
    IF x.t # "object" THEN <<Issue("invalid_type", <<>>, "expected object")>>
    ELSE Under("width", RequiredPositiveIssues(Get(x, "width")))
         \o Under("height", RequiredPositiveIssues(Get(x, "height")))

\* zod.union([viewportSchema, zod.null()]).optional(): a union reports the
\* issues of its only option that parsed the input's types (range issues do
\* not abort an option), and one invalid_union issue when no option did.
ViewportIssues(x) ==
    IF x.t \in {"undefined", "null"} \/ ViewportSchemaIssues(x) = <<>> THEN <<>>
    ELSE IF \A n \in 1..Len(ViewportSchemaIssues(x)) :
                ViewportSchemaIssues(x)[n].code = "too_small"
    THEN ViewportSchemaIssues(x)
    ELSE <<Issue("invalid_union", <<>>, "Invalid input")>>

BrowserNames == {"chromium", "firefox", "webkit"}

TestOptionsDeclared ==
    {"browserName", "headless", "launchOptions", "viewport", "actionTimeout"}

\* Mutant of TestOptionsMode: the options schema rejects undeclared keys.
TestOptionsModeStrict == "strict"

\* testOptionsSchema ends with .loose()
TestOptionsMode == "loose"

\* testOptionsSchema.parse(use): its issues in the order of the schema's fields
\* (browserName, headless, launchOptions, viewport, actionTimeout).
TestOptionsIssues(u) ==
    IF u.t # "object" THEN <<Issue("invalid_type", <<>>, "expected object")>>
    ELSE Under("browserName", EnumIssues(Get(u, "browserName"), BrowserNames))
         \o Under("headless", BooleanIssues(Get(u, "headless")))
         \o Under("launchOptions", LaunchOptionsIssues(Get(u, "launchOptions")))
         \o Under("viewport", ViewportIssues(Get(u, "viewport")))
         \o Under("actionTimeout", NonnegativeIssues(Get(u, "actionTimeout")))
         \o UnknownKeyIssues(u, TestOptionsDeclared, TestOptionsMode)

PreserveOutputValues == {"always", "never", "failures-only"}

TestConfigDeclared ==
    {"fullyParallel", "preserveOutput", "globalTimeout", "expect", "tsconfig",
     "globalSetup", "use", "projects", "testMatch", "testIgnore", "build", "webServer"}

\* The top-level schema tolerates undeclared keys.
TestConfigMode == "loose"

\* The schema of expect, the field timeout.
ExpectIssues(x) ==
    IF x.t = "undefined" THEN <<>>
    ELSE IF x.t # "object" THEN <<Issue("invalid_type", <<>>, "expected object")>>
    ELSE Under("timeout", NonnegativeIssues(Get(x, "timeout")))

\* globalSetup: a string or a list of strings.
GlobalSetupIssues(x) ==
    IF \/ x.t \in {"undefined", "string"}
       \/ IsArray(x) /\ \A n \in 1..Len(x.v) : x.v[n].t = "string"
    THEN <<>>
    ELSE <<Issue("invalid_union", <<>>, "Invalid input")>>

\* testConfigSchema.parse(config), for the fields fullyParallel, preserveOutput,
\* globalTimeout, expect.timeout, tsconfig and globalSetup.
TestConfigIssues(c) ==
    IF c.t # "object" THEN <<Issue("invalid_type", <<>>, "expected object")>>
    ELSE Under("fullyParallel", BooleanIssues(Get(c, "fullyParallel")))
         \o Under("preserveOutput", EnumIssues(Get(c, "preserveOutput"), PreserveOutputValues))
         \o Under("globalTimeout", NonnegativeIssues(Get(c, "globalTimeout")))
         \o Under("expect", ExpectIssues(Get(c, "expect")))
         \o Under("tsconfig", StringIssues(Get(c, "tsconfig")))
         \o Under("globalSetup", GlobalSetupIssues(Get(c, "globalSetup")))
         \o UnknownKeyIssues(c, TestConfigDeclared, TestConfigMode)

-----------------------------------------------------------------------------
(* validateConfig, validateProject, validateTestOptions *)

NoError == [kind |-> "none"]

\* location.resolvedConfigFile || '<default config>'
File(loc) ==
    IF Truthy(loc.resolvedConfigFile) THEN loc.resolvedConfigFile
    ELSE Str("<default config>")

\* errorWithFile(file, message): the error carries the file.
ErrorWithFile(file, e) ==
    [k \in DOMAIN e \cup {"file"} |-> IF k = "file" THEN file ELSE e[k]]

\* Mutant of TsconfigPath: the path is resolved against the working directory.
TsconfigPathFromCwd(file, tsconfig) == PathResolve(<<ToPath(tsconfig)>>)

\* path.resolve(file, '..', config.tsconfig)
TsconfigPath(file, tsconfig) ==
    PathResolve(<<ToPath(file), Path(FALSE, <<"..">>), ToPath(tsconfig)>>)

\* issue.path.join('.')
RECURSIVE JoinPath(_)
JoinPath(path) ==
    IF path = <<>> THEN ""
    ELSE IF Len(path) = 1 THEN path[1]
    ELSE path[1] \o "." \o JoinPath(Tail(path))

\* let current = x; for (const key of issue.path) current = current[key];
RECURSIVE Walk(_, _)
Walk(x, path) == IF path = <<>> THEN x ELSE Walk(Get(x, Head(path)), Tail(path))

\* Mutant of FirstIssue: the last reported issue is taken.
LastIssue(issues) == issues[Len(issues)]

\* const issue = zodError.issues[0]
FirstIssue(issues) == issues[1]

\* errorWithFile(file, `<subject> <what>`): an error without a Received line,
\* thrown by the check entitled `title`.
StructuralError(title, subject, what) ==
    [kind |-> "structural", title |-> title, option |-> subject, code |-> "none",
     path |-> <<>>, text |-> subject \o " " \o what, hasReceived |-> FALSE,
     received |-> Undef]

\* The received value of a wrong-type issue: the path walked into the object.
ReceivedByWalk(x, issue) == IF Len(issue.path) > 0 THEN Walk(x, issue.path) ELSE Undef

\* The received value of a wrong-value or out-of-range issue: the property of
\* the object whose key is the dotted path.
ReceivedByKey(x, issue) ==
    IF Len(issue.path) > 0 THEN Get(x, JoinPath(issue.path)) ELSE Undef

\* Mutant of IssueError: every issue is reported by the last branch, without
\* a Received line.
IssueErrorWithoutReceived(x, issue, title, option, fallback) ==
    [kind |-> "schema", title |-> title, option |-> fallback, code |-> issue.code,
     path |-> issue.path,
     text |-> "Configuration option \"" \o fallback \o "\" " \o issue.detail,
     hasReceived |-> FALSE, received |-> Undef]

\* The error thrown for a schema issue; `x` is the parsed object, `option` the
\* printed option name and `fallback` the name printed by the last branch.
IssueError(x, issue, title, option, fallback) ==
    CASE issue.code = "invalid_type" ->
             [kind |-> "schema", title |-> title, option |-> option, code |-> issue.code,
              path |-> issue.path,
              text |-> "Configuration option \"" \o option \o "\" " \o issue.detail,
              hasReceived |-> TRUE, received |-> ReceivedByWalk(x, issue)]
      [] issue.code \in {"invalid_value", "too_small", "too_big"} ->
             [kind |-> "schema", title |-> title, option |-> option, code |-> issue.code,
              path |-> issue.path,
              text |-> "Configuration option \"" \o option \o "\" " \o IssueMessage(issue),
              hasReceived |-> TRUE, received |-> ReceivedByKey(x, issue)]
      [] OTHER ->
             [kind |-> "schema", title |-> title, option |-> fallback, code |-> issue.code,
              path |-> issue.path,
              text |-> "Configuration option \"" \o fallback \o "\" " \o IssueMessage(issue),
              hasReceived |-> FALSE, received |-> Undef]

\* The catch block of validateConfig.
ConfigSchemaError(c) ==
    LET issue == FirstIssue(TestConfigIssues(c))
        path == JoinPath(issue.path)
    IN  IssueError(c, issue, "", path, IF path # "" THEN path ELSE "configuration")

\* validateTestOptions(file, use, title)
ValidateTestOptions(u, title) ==
    IF TestOptionsIssues(u) = <<>> THEN NoError
    ELSE LET issue == FirstIssue(TestOptionsIssues(u))
             path == JoinPath(issue.path)
             fullPath == IF path # "" THEN title \o "." \o path ELSE title
         IN  IssueError(u, issue, title, fullPath, fullPath)

\* typeof item !== 'string' && !isRegExp(item)
NotStringOrRegExp(x) == x.t \notin {"string", "regexp"}

\* The check of one of testIgnore, testMatch in validateProject.
PatternError(project, title, prop) ==
    LET value == Get(project, prop)
    IN  IF prop \notin Keys(project) \/ value.t = "undefined" THEN NoError
        ELSE IF IsArray(value)
        THEN IF \E n \in 1..Len(value.v) : NotStringOrRegExp(value.v[n])
             THEN LET n == CHOOSE n \in 1..Len(value.v) :
                          /\ NotStringOrRegExp(value.v[n])
                          /\ \A m \in 1..(n - 1) : ~NotStringOrRegExp(value.v[m])
                  IN  StructuralError(title, title \o "." \o prop \o "[" \o ToString(n - 1) \o "]",
                                      "must be a string or a RegExp")
             ELSE NoError
        ELSE IF NotStringOrRegExp(value)
        THEN StructuralError(title, title \o "." \o prop, "must be a string or a RegExp")
        ELSE NoError

\* validateProject reaches validateTestOptions(file, project.use, ..).
ReachesTestOptions(project, title) ==
    /\ TypeofObject(project) /\ Truthy(project)
    /\ PatternError(project, title, "testIgnore") = NoError
    /\ PatternError(project, title, "testMatch") = NoError
    /\ "use" \in Keys(project) /\ Get(project, "use").t # "undefined"
    /\ Truthy(Get(project, "use")) /\ TypeofObject(Get(project, "use"))

\* validateProject(file, project, title)
ValidateProject(project, title) ==
    IF ~TypeofObject(project) \/ ~Truthy(project)
    THEN StructuralError(title, title, "must be an object")
    ELSE IF PatternError(project, title, "testIgnore") # NoError
    THEN PatternError(project, title, "testIgnore")
    ELSE IF PatternError(project, title, "testMatch") # NoError
    THEN PatternError(project, title, "testMatch")
    ELSE IF "use" \in Keys(project) /\ Get(project, "use").t # "undefined"
    THEN IF ~Truthy(Get(project, "use")) \/ ~TypeofObject(Get(project, "use"))
         THEN StructuralError(title, title \o ".use", "must be an object")
         ELSE ValidateTestOptions(Get(project, "use"), title \o ".use")
    ELSE NoError

\* `config.projects[${index}]`, index counted from 0
ProjectTitle(n) == "config.projects[" \o ToString(n) \o "]"

-----------------------------------------------------------------------------
(* Inputs *)

Server(p) == Obj([port |-> Num(p)])

\* Fragments that exercise the config-level keys.
ConfigFragments ==
    { Obj([use |-> Obj([a |-> Num(1), b |-> Num(1)])]),
      Obj([use |-> Obj([b |-> Num(2)])]),
      Obj([expect |-> Obj([a |-> Num(1), b |-> Num(1)]), build |-> Obj([b |-> Num(2)])]),
      Obj([expect |-> Obj([b |-> Num(2)]), build |-> Obj([a |-> Num(1)]),
           timeout |-> Num(1)]),
      Obj([build |-> Obj([c |-> Num(3)]), webServer |-> Server(1)]),
      Obj([webServer |-> Arr(<<Server(2)>>), custom |-> Str("x")]),
      Obj([webServer |-> Arr(<<Server(2), Server(1)>>), timeout |-> Num(2)]),
      Obj([retries |-> Num(1)]),
      Obj(EmptyObj) }

Project(name, f) == Obj(Spread2([name |-> Str(name)], f))

\* Fragments that exercise the project lists.
ProjectFragments ==
    { Obj([projects |-> Arr(<<Project("a", [use |-> Obj([x |-> Num(1)])])>>)]),
      Obj([projects |-> Arr(<<Project("a", [use |-> Obj([x |-> Num(2), y |-> Num(3)]),
                                           retries |-> Num(1)])>>)]),
      Obj([projects |-> Arr(<<Project("b", [retries |-> Num(2)]),
                              Project("a", [retries |-> Num(3)])>>)]),
      Obj([projects |-> Arr(<<Project("a", [retries |-> Num(1)]),
                              Project("a", [use |-> Obj([y |-> Num(1)])])>>)]),
      Obj([projects |-> Arr(<<Project("c", EmptyObj),
                              Project("b", [use |-> Obj([x |-> Num(1)])]),
                              Project("c", [retries |-> Num(2)])>>)]),
      Obj([projects |-> Arr(<<>>), use |-> Obj([x |-> Num(1)])]),
      Obj([projects |-> Undef]),
      Obj([webServer |-> Server(1), build |-> Obj([a |-> Num(1)])]),
      Obj([timeout |-> Num(1)]) }

\* Fragments that exercise the validator: violations of the top-level schema,
\* of config.use and of projects, next to valid and to undeclared keys.
ValidationFragments ==
    { Obj([fullyParallel |-> Str("yes"), globalTimeout |-> Num(-1)]),
      Obj([preserveOutput |-> Str("sometimes")]),
      Obj([expect |-> Obj([timeout |-> Num(-1000)])]),
      Obj([use |-> Obj([headless |-> Str("yes"), myCustomFixture |-> Str("value")])]),
      Obj([use |-> Obj([launchOptions |-> Obj([timeout |-> Num(-5)])])]),
      Obj([use |-> Obj([browserName |-> Str("chrome")]),
           projects |-> Arr(<<Project("a", [use |-> Obj([actionTimeout |-> Num(-1)])])>>)]),
      Obj([projects |-> Arr(<<Project("a", [use |-> Obj([headless |-> Bool(TRUE),
                                                        anotherFixture |-> Num(123)])]),
                              Project("b", [use |-> Obj([actionTimeout |-> Num(-1)])]),
                              Project("c", [testMatch |-> Num(1)])>>)]),
      Obj([fullyParallel |-> Bool(TRUE), customProperty |-> Str("value"),
           use |-> Obj([headless |-> Bool(TRUE), anotherFixture |-> Num(123)])]),
      Obj([tsconfig |-> Str("./tsconfig.json"), globalTimeout |-> Num(0)]),
      Obj([testIgnore |-> RegExp("y"),
           projects |-> Arr(<<Project("a", [testMatch |-> Arr(<<Str("x"), Num(1)>>)])>>)]),
      Obj([customProperty |-> Str("other"),
           use |-> Obj([browserName |-> Str("firefox"),
                        launchOptions |-> Obj([timeout |-> Num(30)])]),
           projects |-> Arr(<<Project("b", [use |-> Obj([actionTimeout |-> Num(5)])])>>)]),
      Obj(EmptyObj) }

SeqsUpTo(S, n) == UNION {[1..m -> S] : m \in 1..n}

-----------------------------------------------------------------------------
(* The call defineConfig(...configs), one loop iteration per step *)

MaxFragments == 3

MaxComposed == 2

MaxValidations == 2

\* Nothing was validated yet.
NotValidated ==
    /\ config = Undef
    /\ use = Undef
    /\ index = 0
    /\ error = [kind |-> "none"]
    /\ checks = <<>>
    /\ validations = 0

\* The directory of the config file, and the disk that holds it: with the
\* tsconfig.json next to the config file, in the working directory, or nowhere.
ConfigDir == <<"repo", "tests">>

Disk(files) ==
    [dirs |-> {<<>>, Cwd.v, ConfigDir},
     files |-> {ConfigDir \o <<"playwright.config.ts">>} \cup files]

TsconfigBeside == Disk({ConfigDir \o <<"tsconfig.json">>})

TsconfigInCwd == Disk({Cwd.v \o <<"tsconfig.json">>})

NoTsconfig == Disk({})

\* loadConfig(location) for the file <ConfigDir>/playwright.config.ts
FileLocation ==
    ConfigLocation(Path(TRUE, ConfigDir \o <<"playwright.config.ts">>), Path(TRUE, ConfigDir))

\* loadConfig({ configDir: process.cwd() })
DirectoryLocation == ConfigLocation(Undef, Cwd)

\* loadConfig was entered with a resolved file and has built nothing yet.
NotLoaded ==
    /\ configFile = Undef
    /\ location = FileLocation
    /\ fullConfig = Undef
    /\ transform = Undef

InitMerge ==
    /\ configs \in SeqsUpTo(ConfigFragments, MaxFragments)
    /\ i = 1
    /\ result = FirstResult(configs)
    /\ prevProjects = Undef
    /\ pc = "loop"
    /\ NotValidated
    /\ NotLoaded
    /\ disk = TsconfigBeside

InitProjects ==
    /\ configs \in SeqsUpTo(ProjectFragments, MaxFragments)
    /\ i = 1
    /\ result = FirstResult(configs)
    /\ prevProjects = Undef
    /\ pc = "loop"
    /\ NotValidated
    /\ NotLoaded
    /\ disk = TsconfigBeside

\* The config file either exports defineConfig(...configs) or, with pc at
\* "export", the plain object configs[0].
InitValidate ==
    /\ configs \in SeqsUpTo(ValidationFragments, MaxComposed)
    /\ i = 1
    /\ result = FirstResult(configs)
    /\ prevProjects = Undef
    /\ pc \in (IF Len(configs) = 1 THEN {"loop", "export"} ELSE {"loop"})
    /\ NotValidated
    /\ NotLoaded
    /\ disk \in {TsconfigBeside, TsconfigInCwd}

\* for (let i = 1; i < configs.length; ++i) { ... }   (i is 0-based in the code)
DefineConfigLoop ==
    /\ pc = "loop"
    /\ i < Len(configs)
    /\ prevProjects' = Get(result, "projects")
    /\ result' = DefineConfigStep(result, configs[i + 1])
    /\ i' = i + 1
    /\ UNCHANGED <<configs, pc>>
    /\ UNCHANGED validateVars
    /\ UNCHANGED loadVars

\* result[kDefineConfigWasUsed] = true; return result.  With one argument
\* `result` is configs[0] itself, so the assignment writes into the argument.
DefineConfigReturn ==
    /\ pc = "loop"
    /\ i >= Len(configs)
    /\ result' = SetMarker(result)
    /\ configs' = IF Len(configs) = 1 THEN <<SetMarker(result)>> ELSE configs
    /\ pc' = "return"
    /\ UNCHANGED <<i, prevProjects>>
    /\ UNCHANGED validateVars
    /\ UNCHANGED loadVars

NextMerge == DefineConfigLoop \/ DefineConfigReturn

SpecMerge == InitMerge /\ [][NextMerge]_vars

SpecProjects == InitProjects /\ [][NextMerge]_vars

-----------------------------------------------------------------------------
(* validateConfig(file, config), one check per step *)

\* fs.existsSync(path.resolve(file, '..', config.tsconfig)) of the tsconfig check
tsconfigExists ==
    /\ Get(config, "tsconfig").t = "string"
    /\ ExistsSync(disk, TsconfigPath(File(location), Get(config, "tsconfig")))

\* Mutant of Throw: the error is recorded and validation reports success.
ThrowSwallowed(e) ==
    /\ error' = ErrorWithFile(File(location), e)
    /\ pc' = "validated"

\* throw errorWithFile(file, ...)
Throw(e) ==
    /\ error' = ErrorWithFile(File(location), e)
    /\ pc' = "thrown"

\* Mutant of Candidate: validation normalises the candidate, giving it a use.
CandidateWithUse(c) ==
    IF c.t = "object" /\ "use" \notin Keys(c) THEN Obj(Spread2(Fields(c), [use |-> Obj(EmptyObj)]))
    ELSE c

\* The candidate after a check: no check of validateConfig, validateProject or
\* validateTestOptions assigns to it, and the parsed copy is dropped.
Candidate(c) == c

\* if (object && typeof object === 'object' && ('default' in object))
\*   object = object['default']
UserConfig(object) ==
    IF Truthy(object) /\ TypeofObject(object) /\ "default" \in Keys(object)
    THEN Get(object, "default")
    ELSE object

\* const userConfig = await loadUserConfig(location);
\* validateConfig(location.resolvedConfigFile || '<default config>', userConfig)
LoadUserConfig ==
    /\ pc \in {"return", "export"}
    /\ \E esModule \in BOOLEAN :
           config' = UserConfig(IF ~Truthy(location.resolvedConfigFile) THEN Obj(EmptyObj)
                                ELSE IF esModule THEN Obj([default |-> result])
                                ELSE result)
    /\ validations' = 1
    /\ pc' = "validateConfig"
    /\ UNCHANGED <<use, index, error, checks>>
    /\ UNCHANGED mergeVars
    /\ UNCHANGED loadVars

\* if (typeof config !== 'object' || !config) throw ...
ValidateConfigObject ==
    /\ pc = "validateConfig"
    /\ checks' = Append(checks, "object")
    /\ IF ~TypeofObject(config) \/ ~Truthy(config)
       THEN Throw(StructuralError("", "Configuration file", "must export a single object"))
       ELSE pc' = "schema" /\ UNCHANGED error
    /\ config' = Candidate(config)
    /\ UNCHANGED <<use, index, validations>>
    /\ UNCHANGED mergeVars
    /\ UNCHANGED loadVars

\* try { testConfigSchema.parse(config) } catch (error) { ... }
ValidateConfigSchema ==
    /\ pc = "schema"
    /\ checks' = Append(checks, "schema")
    /\ IF TestConfigIssues(config) # <<>>
       THEN Throw(ConfigSchemaError(config))
       ELSE pc' = "project" /\ UNCHANGED error
    /\ config' = Candidate(config)
    /\ UNCHANGED <<use, index, validations>>
    /\ UNCHANGED mergeVars
    /\ UNCHANGED loadVars

\* validateProject(file, config, 'config')
ValidateConfigProject ==
    /\ pc = "project"
    /\ checks' = Append(checks, "config")
    /\ use' = IF ReachesTestOptions(config, "config") THEN Get(config, "use") ELSE use
    /\ IF ValidateProject(config, "config") # NoError
       THEN Throw(ValidateProject(config, "config"))
       ELSE pc' = "use" /\ UNCHANGED error
    /\ config' = Candidate(config)
    /\ UNCHANGED <<index, validations>>
    /\ UNCHANGED mergeVars
    /\ UNCHANGED loadVars

\* if (config.use !== undefined) validateTestOptions(file, config.use, 'config.use')
ValidateConfigUse ==
    /\ pc = "use"
    /\ IF Get(config, "use").t # "undefined"
       THEN /\ checks' = Append(checks, "config.use")
            /\ use' = Get(config, "use")
            /\ IF ValidateTestOptions(Get(config, "use"), "config.use") # NoError
               THEN Throw(ValidateTestOptions(Get(config, "use"), "config.use"))
               ELSE pc' = "projects" /\ UNCHANGED error
       ELSE pc' = "projects" /\ UNCHANGED <<checks, use, error>>
    /\ index' = 0
    /\ config' = Candidate(config)
    /\ UNCHANGED validations
    /\ UNCHANGED mergeVars
    /\ UNCHANGED loadVars

\* One call of the callback of config.projects.forEach.
ValidateConfigProjects ==
    /\ pc = "projects"
    /\ Truthy(Get(config, "projects"))
    /\ index < Len(OrEmpty(Get(config, "projects")))
    /\ LET project == Get(config, "projects").v[index + 1]
       IN  /\ checks' = Append(checks, ProjectTitle(index))
           /\ use' = IF ReachesTestOptions(project, ProjectTitle(index))
                     THEN Get(project, "use") ELSE use
           /\ IF ValidateProject(project, ProjectTitle(index)) # NoError
              THEN Throw(ValidateProject(project, ProjectTitle(index))) /\ UNCHANGED index
              ELSE index' = index + 1 /\ UNCHANGED <<pc, error>>
    /\ config' = Candidate(config)
    /\ UNCHANGED validations
    /\ UNCHANGED mergeVars
    /\ UNCHANGED loadVars

\* config.projects is falsy, or forEach has visited every project.
ValidateConfigProjectsEnd ==
    /\ pc = "projects"
    /\ ~Truthy(Get(config, "projects")) \/ index >= Len(OrEmpty(Get(config, "projects")))
    /\ pc' = "tsconfig"
    /\ UNCHANGED <<config, use, index, error, checks, validations>>
    /\ UNCHANGED mergeVars
    /\ UNCHANGED loadVars

\* if (config.tsconfig && typeof config.tsconfig === 'string')
\*   if (!fs.existsSync(path.resolve(file, '..', config.tsconfig))) throw ...
ValidateConfigTsconfig ==
    /\ pc = "tsconfig"
    /\ IF Truthy(Get(config, "tsconfig")) /\ Get(config, "tsconfig").t = "string"
       THEN /\ checks' = Append(checks, "tsconfig")
            /\ IF ~tsconfigExists
               THEN Throw(StructuralError("", "config.tsconfig", "does not exist"))
               ELSE pc' = "validated" /\ UNCHANGED error
       ELSE pc' = "validated" /\ UNCHANGED <<checks, error>>
    /\ config' = Candidate(config)
    /\ UNCHANGED <<use, index, validations>>
    /\ UNCHANGED mergeVars
    /\ UNCHANGED loadVars

\* The validated configuration is validated once more.
ValidateAgain ==
    /\ pc = "validated"
    /\ validations < MaxValidations
    /\ validations' = validations + 1
    /\ checks' = <<>>
    /\ index' = 0
    /\ pc' = "validateConfig"
    /\ UNCHANGED <<config, use, error>>
    /\ UNCHANGED mergeVars
    /\ UNCHANGED loadVars

NextValidate ==
    \/ DefineConfigLoop
    \/ DefineConfigReturn
    \/ LoadUserConfig
    \/ ValidateConfigObject
    \/ ValidateConfigSchema
    \/ ValidateConfigProject
    \/ ValidateConfigUse
    \/ ValidateConfigProjects
    \/ ValidateConfigProjectsEnd
    \/ ValidateConfigTsconfig
    \/ ValidateAgain

SpecValidate == InitValidate /\ [][NextValidate]_vars

-----------------------------------------------------------------------------
(* loadConfig(location, overrides, ignoreProjectDependencies) *)

\* Configurations that exercise every kind of error of the validator, the
\* tsconfig check and the marker; the last is a result of defineConfig.
LoadFragments ==
    { Obj([fullyParallel |-> Str("yes")]),
      Obj([preserveOutput |-> Str("sometimes")]),
      Obj([globalSetup |-> Num(123)]),
      Obj([use |-> Obj([viewport |-> Str("big")])]),
      Obj([use |-> Obj([viewport |-> Obj([width |-> Num(-100), height |-> Num(720)])])]),
      Obj([tsconfig |-> Str("./tsconfig.json"),
           build |-> Obj([external |-> Arr(<<Str("x")>>)])]),
      Obj([tsconfig |-> Str("../tsconfig.json")]),
      Obj([tsconfig |-> Str(""),
           projects |-> Arr(<<Project("a", [use |-> Obj([headless |-> Bool(TRUE)])])>>)]),
      Obj([tsconfig |-> Str("./tsconfig.json"),
           projects |-> Arr(<<Project("a", [testMatch |-> Num(1)])>>)]),
      Obj([projects |-> Arr(<<Project("b", [use |-> Num(1)])>>)]),
      SetMarker(Obj([timeout |-> Num(1)])) }

\* What a config file can export that is not a configuration object.
OtherExports == {Null, Num(1), Arr(<<>>)}

\* loadConfig is entered with a location; the config file, when there is one,
\* exports defineConfig(...configs) or, with pc at "export", configs[0] itself.
InitLoad ==
    /\ location \in {FileLocation, DirectoryLocation}
    /\ disk \in {TsconfigBeside, TsconfigInCwd, NoTsconfig}
    /\ configs \in (IF Truthy(location.resolvedConfigFile)
                    THEN SeqsUpTo(LoadFragments, MaxComposed)
                         \cup {<<x>> : x \in OtherExports}
                    ELSE {<<Obj(EmptyObj)>>})
    /\ i = 1
    /\ result = FirstResult(configs)
    /\ prevProjects = Undef
    /\ pc \in (IF Len(configs) > 1 THEN {"loop"}
               ELSE IF configs[1].t = "object" /\ Truthy(location.resolvedConfigFile)
               THEN {"loop", "export"}
               ELSE {"export"})
    /\ NotValidated
    /\ configFile = Undef
    /\ fullConfig = Undef
    /\ transform = Undef

\* requireOrImport(location.resolvedConfigFile) throws: the file does not
\* compile or its evaluation fails.
RequireOrImportThrows ==
    /\ pc \in {"loop", "return", "export"}
    /\ Truthy(location.resolvedConfigFile)
    /\ error' = [kind |-> "load"]
    /\ pc' = "thrown"
    /\ UNCHANGED <<config, use, index, checks, validations>>
    /\ UNCHANGED mergeVars
    /\ UNCHANGED loadVars

\* const fullConfig = new FullConfigInternal(location, userConfig, ...);
\* fullConfig.defineConfigWasUsed = !!(userConfig as any)[kDefineConfigWasUsed]
NewFullConfig ==
    /\ pc = "validated"
    /\ fullConfig' = [location |-> location, userConfig |-> config,
                      defineConfigWasUsed |-> Truthy(Get(config, kDefineConfigWasUsed)),
                      depsCleared |-> FALSE]
    /\ pc' = "fullConfig"
    /\ UNCHANGED <<disk, configFile, location, transform>>
    /\ UNCHANGED mergeVars
    /\ UNCHANGED validateVars

\* if (ignoreProjectDependencies) for (const project of fullConfig.projects) ...
IgnoreProjectDependencies ==
    /\ pc = "fullConfig"
    /\ \E ignoreProjectDependencies \in BOOLEAN :
           fullConfig' = [fullConfig EXCEPT !.depsCleared = ignoreProjectDependencies]
    /\ pc' = "transform"
    /\ UNCHANGED <<disk, configFile, location, transform>>
    /\ UNCHANGED mergeVars
    /\ UNCHANGED validateVars

\* setTransformConfig({ babelPlugins, external })
SetTransformConfig ==
    /\ pc = "transform"
    /\ transform' = [external |-> OrEmpty(Get(Get(config, "build"), "external")),
                     sentToLoader |-> FALSE]
    /\ pc' = "esmLoader"
    /\ UNCHANGED <<disk, configFile, location, fullConfig>>
    /\ UNCHANGED mergeVars
    /\ UNCHANGED validateVars

\* await configureESMLoaderTransformConfig(); return fullConfig
ConfigureESMLoaderTransformConfig ==
    /\ pc = "esmLoader"
    /\ transform' = [transform EXCEPT !.sentToLoader = TRUE]
    /\ pc' = "loaded"
    /\ UNCHANGED <<disk, configFile, location, fullConfig>>
    /\ UNCHANGED mergeVars
    /\ UNCHANGED validateVars

NextLoad ==
    \/ DefineConfigLoop
    \/ DefineConfigReturn
    \/ RequireOrImportThrows
    \/ LoadUserConfig
    \/ ValidateConfigObject
    \/ ValidateConfigSchema
    \/ ValidateConfigProject
    \/ ValidateConfigUse
    \/ ValidateConfigProjects
    \/ ValidateConfigProjectsEnd
    \/ ValidateConfigTsconfig
    \/ NewFullConfig
    \/ IgnoreProjectDependencies
    \/ SetTransformConfig
    \/ ConfigureESMLoaderTransformConfig

SpecLoad == InitLoad /\ [][NextLoad]_vars

-----------------------------------------------------------------------------
(* resolveConfigLocation(configFile) *)

\* The arguments: none, the empty string, a directory, files, a missing path.
ConfigFileArguments ==
    { Undef,
      Path(FALSE, <<>>),
      Path(FALSE, <<"tests">>),
      Path(FALSE, <<".", "tests", "custom.conf">>),
      Path(FALSE, <<"playwright.config.js">>),
      Path(TRUE, <<"repo", "tests", "..", "missing">>) }

\* What the disk holds at <cwd>/tests: nothing, a file, an empty directory, or
\* a directory with config files.
TestsEntries ==
    { [dirs |-> {}, files |-> {}],
      [dirs |-> {}, files |-> {ConfigDir}],
      [dirs |-> {ConfigDir}, files |-> {}],
      [dirs |-> {ConfigDir},
       files |-> {ConfigDir \o <<"custom.conf">>, ConfigDir \o <<"playwright.config.mjs">>,
                  ConfigDir \o <<"playwright.config.cjs">>}] }

\* The disks: any set of playwright.config.<ext> files in the working
\* directory, next to one of TestsEntries.
ResolveDisks ==
    { [dirs |-> {<<>>, Cwd.v} \cup t.dirs,
       files |-> {Cwd.v \o <<"playwright.config" \o Extensions[n]>> : n \in exts} \cup t.files] :
          exts \in SUBSET (1..Len(Extensions)), t \in TestsEntries }

NoLocation == ConfigLocation(Undef, Undef)

InitResolve ==
    /\ configFile \in ConfigFileArguments
    /\ disk \in ResolveDisks
    /\ location = NoLocation
    /\ pc = "resolveConfigLocation"
    /\ configs = <<Obj(EmptyObj)>>
    /\ i = 1
    /\ result = FirstResult(configs)
    /\ prevProjects = Undef
    /\ NotValidated
    /\ fullConfig = Undef
    /\ transform = Undef

\* resolveConfigLocation with the resolveConfigFile it calls.
ResolveConfigLocation ==
    /\ pc = "resolveConfigLocation"
    /\ IF ~ExistsSync(disk, ConfigFileOrDirectory(configFile))
       THEN /\ error' = [kind |-> "location", path |-> ConfigFileOrDirectory(configFile),
                         text |-> "does not exist"]
            /\ pc' = "thrown"
            /\ UNCHANGED location
       ELSE /\ location' = ConfigLocation(
                               ResolveConfigFile(disk, ConfigFileOrDirectory(configFile)),
                               ConfigFileOrDirectory(configFile))
            /\ pc' = "resolved"
            /\ UNCHANGED error
    /\ UNCHANGED <<config, use, index, checks, validations>>
    /\ UNCHANGED <<disk, configFile, fullConfig, transform>>
    /\ UNCHANGED mergeVars

NextResolve == ResolveConfigLocation

SpecResolve == InitResolve /\ [][NextResolve]_vars

-----
(* Properties of defineConfig *)

Returned == pc = "return"

\* The fragments declaring key `key` inside their sub-object `k`.
Declaring(k, key) == {j \in 1..Len(configs) : key \in Keys(Get(configs[j], k))}

Max(S) == CHOOSE n \in S : \A m \in S : m <= n

SubObjectKeys == {"expect", "use", "build"}

\* C1: with two or more fragments, each of expect, use and build of the merged
\* configuration holds exactly the keys some fragment declares in that
\* sub-object, each with the value of the last fragment declaring it.
C1_ShallowMerge ==
    (Returned /\ Len(configs) >= 2) =>
        \A k \in SubObjectKeys :
            LET sub == Get(result, k)
            IN  /\ sub.t = "object"
                /\ Keys(sub) = UNION {Keys(Get(configs[j], k)) : j \in 1..Len(configs)}
                /\ \A key \in Keys(sub) :
                       Get(sub, key) = Get(Get(configs[Max(Declaring(k, key))], k), key)

\* A key declared only by the first fragment survives next to a key the second
\* fragment overwrites.
C1_Witness ==
    /\ Returned /\ Len(configs) = 2
    /\ Get(configs[1], "use") = Obj([a |-> Num(1), b |-> Num(1)])
    /\ Get(configs[2], "use") = Obj([b |-> Num(2)])
    /\ Get(result, "use") = Obj([a |-> Num(1), b |-> Num(2)])

\* What one fragment contributes to webServer, by the claim's words.
Entries(c) ==
    IF "webServer" \notin Keys(c) THEN <<>>
    ELSE IF Get(c, "webServer").t = "array" THEN Get(c, "webServer").v
    ELSE <<Get(c, "webServer")>>

RECURSIVE ConcatEntries(_)
ConcatEntries(cs) ==
    IF cs = <<>> THEN <<>> ELSE Entries(Head(cs)) \o ConcatEntries(Tail(cs))

\* C2: with two or more fragments, the merged webServer is the concatenation,
\* in fragment order, of every fragment's webServer entries.
C2_WebServerConcat ==
    (Returned /\ Len(configs) >= 2) =>
        Get(result, "webServer") = Arr(ConcatEntries(configs))

\* A single descriptor followed by a list gives a two-element list in that order.
C2_Witness ==
    /\ Returned /\ Len(configs) = 2
    /\ Get(configs[1], "webServer") = Server(1)
    /\ Get(configs[2], "webServer") = Arr(<<Server(2)>>)
    /\ Get(result, "webServer") = Arr(<<Server(1), Server(2)>>)

\* A fold step has run: configs[i] was folded into the accumulator, whose
\* project list before the step was prevProjects.
Folded == pc = "loop" /\ i >= 2

Base == OrEmpty(prevProjects)

Override == OrEmpty(Get(configs[i], "projects"))

Out == OrEmpty(Get(result, "projects"))

NameOf(p) == Get(p, "name")

Names(ps) == {NameOf(ps[n]) : n \in 1..Len(ps)}

\* The merge of a base project with an override, by the claim's words.
Overridden(b, o) ==
    Obj([k \in Keys(b) \cup Keys(o) \cup {"use"} |->
            IF k = "use"
            THEN Obj([u \in Keys(Get(b, "use")) \cup Keys(Get(o, "use")) |->
                         IF u \in Keys(Get(o, "use")) THEN Get(Get(o, "use"), u)
                         ELSE Get(Get(b, "use"), u)])
            ELSE IF k \in Keys(o) THEN Get(o, k) ELSE Get(b, k)])

\* C3 as stated: an override sharing its name with a base project leaves exactly
\* one project of that name, at the base project's position, merged from the
\* two; an override of another name replaces no base project.
C3_AsStated ==
    (Folded /\ Override # <<>>) =>
        /\ \A n \in 1..Len(Override) : \A m \in 1..Len(Base) :
               NameOf(Override[n]) = NameOf(Base[m]) =>
                   /\ Cardinality({q \in 1..Len(Out) : NameOf(Out[q]) = NameOf(Base[m])}) = 1
                   /\ m <= Len(Out)
                   /\ Out[m] = Overridden(Base[m], Override[n])
        /\ \A m \in 1..Len(Base) :
               NameOf(Base[m]) \notin Names(Override) => (m <= Len(Out) /\ Out[m] = Base[m])

FirstNamed(ps, name) == CHOOSE n \in 1..Len(ps) :
    NameOf(ps[n]) = name /\ \A m \in 1..(n - 1) : NameOf(ps[m]) # name

LastNamed(ps, name) == CHOOSE n \in 1..Len(ps) :
    NameOf(ps[n]) = name /\ \A m \in (n + 1)..Len(ps) : NameOf(ps[m]) # name

\* C3 (amended): in a fold step whose fragment supplies projects, the first base
\* project of each name the fragment also uses is replaced, in place, by its
\* merge with the fragment's last project of that name; every other base
\* project, later base projects of the same name included, stays as it was at
\* its position.
C3_ProjectOverride ==
    (Folded /\ Override # <<>>) =>
        /\ Len(Out) >= Len(Base)
        /\ \A m \in 1..Len(Base) :
               IF NameOf(Base[m]) \in Names(Override) /\ m = FirstNamed(Base, NameOf(Base[m]))
               THEN Out[m] = Overridden(Base[m],
                                        Override[LastNamed(Override, NameOf(Base[m]))])
               ELSE Out[m] = Base[m]

\* Two base projects share a name an override uses: the first is merged, the
\* second is kept as it was.
C3_Witness ==
    /\ Folded /\ Override # <<>>
    /\ \E m \in 1..Len(Base) : \E q \in 1..Len(Base) :
           /\ m < q
           /\ NameOf(Base[m]) = NameOf(Base[q])
           /\ NameOf(Base[m]) \in Names(Override)
           /\ Out[m] # Base[m]
           /\ Out[q] = Base[q]

Unmatched == SelectSeq(Override, LAMBDA p : NameOf(p) \notin Names(Base))

Appended == SubSeq(Out, Len(Base) + 1, Len(Out))

\* C4 as stated: every project of the fragment whose name no base project has is
\* appended after the base projects, in the fragment's order.
C4_AsStated ==
    (Folded /\ Override # <<>>) => Appended = Unmatched

\* The positions of ps that are the first of their name.
FirstOfName(ps) == {n \in 1..Len(ps) : \A m \in 1..(n - 1) : NameOf(ps[m]) # NameOf(ps[n])}

Nth(S, q) == CHOOSE n \in S : Cardinality({m \in S : m <= n}) = q

\* One project per name of ps: the last of that name, at the rank of the first.
LastPerName(ps) ==
    [q \in 1..Cardinality(FirstOfName(ps)) |->
        ps[LastNamed(ps, NameOf(ps[Nth(FirstOfName(ps), q)]))]]

\* C4 (amended): after the base projects the merged list holds one project per
\* distinct name that the fragment uses and no base project has, in the order
\* in which the names first occur in the fragment, and each is the fragment's
\* last project of that name.
C4_AppendUnmatched ==
    (Folded /\ Override # <<>>) =>
        /\ Len(Out) = Len(Base) + Cardinality(FirstOfName(Unmatched))
        /\ Appended = LastPerName(Unmatched)

\* Two unmatched names are appended in the fragment's order, one of them used by
\* two of the fragment's projects.
C4_Witness ==
    /\ Folded /\ Base # <<>>
    /\ Len(Unmatched) = 3
    /\ Len(Appended) = 2
    /\ NameOf(Appended[1]) # NameOf(Appended[2])

ConfigKeys(c) == Keys(c) \ {kDefineConfigWasUsed}

DisjointPair ==
    /\ Returned /\ Len(configs) = 2
    /\ Keys(configs[1]) \cap Keys(configs[2]) = {}

Declared(k) == IF k \in Keys(configs[1]) THEN Get(configs[1], k) ELSE Get(configs[2], k)

\* C5 as stated: two fragments with disjoint keys merge into exactly the keys of
\* both, each with its original value.
C5_AsStated ==
    DisjointPair =>
        /\ ConfigKeys(result) = Keys(configs[1]) \cup Keys(configs[2])
        /\ \A k \in ConfigKeys(result) : Get(result, k) = Declared(k)

\* C5 (amended): two fragments with disjoint keys merge into the keys of both
\* plus expect, use, build and webServer, which are always present; expect, use
\* and build hold the declared mapping (empty when undeclared), webServer holds
\* the declared entries as a list, a project list of the second fragment keeps
\* one project per name, and every other key keeps its original value.
C5_DisjointUnion ==
    DisjointPair =>
        /\ ConfigKeys(result) =
               Keys(configs[1]) \cup Keys(configs[2]) \cup SubObjectKeys \cup {"webServer"}
        /\ \A k \in ConfigKeys(result) :
               Get(result, k) =
                   CASE k \in SubObjectKeys -> Obj(Fields(Declared(k)))
                     [] k = "webServer" -> Arr(ConcatEntries(configs))
                     [] k = "projects" /\ IsArray(Get(configs[2], k)) ->
                            Arr(LastPerName(Get(configs[2], k).v))
                     [] OTHER -> Declared(k)

\* One fragment declares projects only, the other a single descriptor, and the
\* result holds both next to the keys neither declared.
C5_Witness ==
    /\ DisjointPair
    /\ Keys(configs[1]) = {"projects"}
    /\ Get(configs[1], "projects") = Get(result, "projects")
    /\ Len(Out) = 2
    /\ Get(configs[2], "webServer") = Server(1)
    /\ Get(result, "webServer") = Arr(<<Server(1)>>)
    /\ Get(result, "expect") = Obj(EmptyObj)

\* C6: one call with three or more fragments returns what folding the first two
\* in a call of their own, and passing that result with the remaining fragments
\* to a second call, returns.
C6_FoldNested ==
    (Returned /\ Len(configs) >= 3) =>
        result = DefineConfig(<<DefineConfig(SubSeq(configs, 1, 2))>>
                                 \o SubSeq(configs, 3, Len(configs)))

\* Three fragments that all supply projects, the third merging into a project
\* the first two produced.
C6_Witness ==
    /\ Returned /\ Len(configs) = 3
    /\ \A j \in 1..3 : IsArray(Get(configs[j], "projects")) /\ Get(configs[j], "projects").v # <<>>
    /\ Len(Out) = 3
    /\ Get(result, kDefineConfigWasUsed) = Bool(TRUE)

-----------------------------------------------------------------------------
(* Properties of validateConfig *)

Finished == pc \in {"thrown", "validated"}

Last(q) == q[Len(q)]

ProjectsOf(c) == OrEmpty(Get(c, "projects"))

\* The checks of validateConfig on candidate c, in the order the claim gives:
\* the top-level schema, the config's own options, the projects by index, and
\* the tsconfig file.
FixedOrder(c) ==
    <<"object", "schema", "config">>
    \o (IF Get(c, "use").t # "undefined" THEN <<"config.use">> ELSE <<>>)
    \o [n \in 1..Len(ProjectsOf(c)) |-> ProjectTitle(n - 1)]
    \o (IF Get(c, "tsconfig").t = "string" /\ Get(c, "tsconfig").v # ""
        THEN <<"tsconfig">> ELSE <<>>)

TopViolated(c) == TestConfigIssues(c) # <<>>

UseViolated(c) ==
    /\ Get(c, "use").t # "undefined"
    /\ Get(c, "use").t # "object" \/ TestOptionsIssues(Get(c, "use")) # <<>>

ProjectViolated(c, n) == ValidateProject(ProjectsOf(c)[n + 1], ProjectTitle(n)) # NoError

\* Check number n of FixedOrder(c) finds a violation.
Fails(c, n) ==
    LET check == FixedOrder(c)[n]
    IN  CASE check = "object" -> ~TypeofObject(c) \/ ~Truthy(c)
          [] check = "schema" -> TopViolated(c)
          [] check = "config" -> ValidateProject(c, "config") # NoError
          [] check = "config.use" -> UseViolated(c)
          [] check = "tsconfig" -> ~tsconfigExists
          [] OTHER -> \E m \in 0..(Len(ProjectsOf(c)) - 1) :
                          check = ProjectTitle(m) /\ ProjectViolated(c, m)

IsPrefix(p, q) == Len(p) <= Len(q) /\ \A n \in 1..Len(p) : p[n] = q[n]

\* C7: validateConfig reports one violation, the first in the fixed order: a
\* top-level schema violation before any use or project violation, a config.use
\* violation before any project violation, the project of smallest index before
\* the others; no check after the violating one is run.
C7_FirstViolation ==
    Finished =>
        /\ IsPrefix(checks, FixedOrder(config))
        /\ \A n \in 1..(Len(checks) - 1) : ~Fails(config, n)
        /\ pc = "thrown" => (error # NoError /\ Fails(config, Len(checks)))
        /\ pc = "validated" =>
               (checks = FixedOrder(config) /\ ~Fails(config, Len(checks)) /\ error = NoError)
        /\ TopViolated(config) =>
               /\ pc = "thrown" /\ error.kind = "schema" /\ error.title = ""
               /\ error.path = TestConfigIssues(config)[1].path
               /\ error.code = TestConfigIssues(config)[1].code
        /\ (~TopViolated(config) /\ UseViolated(config)) =>
               /\ pc = "thrown"
               /\ error.title \in {"config", "config.use"}
               /\ \A m \in 0..(Len(ProjectsOf(config)) - 1) :
                      \A n \in 1..Len(checks) : checks[n] # ProjectTitle(m)
        /\ \A m \in 0..(Len(ProjectsOf(config)) - 1) :
               ( /\ ~TopViolated(config)
                 /\ ValidateProject(config, "config") = NoError
                 /\ ProjectViolated(config, m)
                 /\ \A l \in 0..(m - 1) : ~ProjectViolated(config, l) ) =>
                   /\ pc = "thrown"
                   /\ Last(checks) = ProjectTitle(m)
                   /\ error.title \in {ProjectTitle(m), ProjectTitle(m) \o ".use"}

\* A candidate that violates the top-level schema twice, config.use and a
\* project is reported for its first top-level violation only.
C7_Witness ==
    /\ pc = "thrown"
    /\ Len(TestConfigIssues(config)) = 2
    /\ UseViolated(config)
    /\ Len(ProjectsOf(config)) = 1 /\ ProjectViolated(config, 0)
    /\ error.option = "fullyParallel"
    /\ checks = <<"object", "schema">>

\* The second of three projects is the first that violates.
C7_WitnessProject ==
    /\ pc = "thrown"
    /\ Len(ProjectsOf(config)) = 3
    /\ ~ProjectViolated(config, 0) /\ ProjectViolated(config, 1) /\ ProjectViolated(config, 2)
    /\ error.title = "config.projects[1].use"

\* Candidate c without the keys the options schema does not declare, in
\* config.use and in every project's use.
KnownUse(u) == IF u.t = "object" THEN Obj([k \in Keys(u) \cap TestOptionsDeclared |-> Fields(u)[k]]) ELSE u

KnownProject(p) ==
    IF "use" \in Keys(p) THEN Obj(Spread2(Fields(p), [use |-> KnownUse(Get(p, "use"))])) ELSE p

KnownKeys(c) ==
    Obj([k \in Keys(c) \cap TestConfigDeclared |->
            CASE k = "use" -> KnownUse(Fields(c)[k])
              [] k = "projects" /\ IsArray(Fields(c)[k]) ->
                     Arr([n \in 1..Len(Fields(c)[k].v) |-> KnownProject(Fields(c)[k].v[n])])
              [] OTHER -> Fields(c)[k]])

AllValid(c) == \A n \in 1..Len(FixedOrder(c)) : ~Fails(c, n)

HasUnknownKeys(c) ==
    \/ Keys(c) \ (TestConfigDeclared \cup {kDefineConfigWasUsed}) # {}
    \/ Keys(Get(c, "use")) \ TestOptionsDeclared # {}

\* The value the fragments give key k: that of the last fragment declaring it.
LastDeclared(k) ==
    Get(configs[Max({j \in 1..Len(configs) : k \in Keys(configs[j])})], k)

LastDeclaredUse(k) ==
    Get(Get(configs[Max({j \in 1..Len(configs) : k \in Keys(Get(configs[j], "use"))})], "use"), k)

\* C8: a candidate is accepted exactly when it is valid with its undeclared
\* top-level and use keys left out, so undeclared keys neither cause nor hide an
\* error; and the undeclared keys of the fragments reach the validated candidate
\* with the values the fragments gave them.
C8_UnknownKeys ==
    /\ Finished => (pc = "validated" <=> AllValid(KnownKeys(config)))
    /\ config # Undef =>
           /\ \A j \in 1..Len(configs) :
                  /\ Keys(configs[j]) \ TestConfigDeclared \subseteq Keys(config)
                  /\ Keys(Get(configs[j], "use")) \ TestOptionsDeclared
                         \subseteq Keys(Get(config, "use"))
           /\ \A k \in Keys(config) \ (TestConfigDeclared \cup {kDefineConfigWasUsed}) :
                  Get(config, k) = LastDeclared(k)
           /\ \A k \in Keys(Get(config, "use")) \ TestOptionsDeclared :
                  Get(Get(config, "use"), k) = LastDeclaredUse(k)

\* Two fragments with undeclared top-level and use keys are merged and accepted.
C8_Witness ==
    /\ pc = "validated" /\ Len(configs) = 2
    /\ Get(configs[1], "customProperty") = Str("value")
    /\ Get(config, "customProperty") = Str("other")
    /\ Get(Get(config, "use"), "anotherFixture") = Num(123)
    /\ Get(Get(config, "use"), "browserName") = Str("firefox")

\* An undeclared use key next to an invalid declared one: the error is reported.
C8_WitnessRejected ==
    /\ pc = "thrown"
    /\ Get(Get(config, "use"), "myCustomFixture") = Str("value")
    /\ error.option = "config.use.headless"

Parsed == IF error.title = "" THEN config ELSE use

\* C10: the received value of a wrong-value or out-of-range diagnostic is the
\* value found by walking the issue's path into the validated object, and is
\* absent only when the path is empty.
C10_ReceivedAtPath ==
    (pc = "thrown" /\ error.code \in {"invalid_value", "too_small", "too_big"}) =>
        /\ error.hasReceived
        /\ error.received = (IF error.path = <<>> THEN Undef ELSE Walk(Parsed, error.path))

-----------------------------------------------------------------------------
(* Properties of the diagnostics and of loadConfig *)

ValidationFailure == pc = "thrown" /\ error.kind \in {"structural", "schema"}

ReceivedCodes == {"invalid_type", "invalid_value", "too_small", "too_big"}

\* The first issue of the schema that failed: the top-level one or the options'.
FirstReported ==
    IF error.title = "" THEN TestConfigIssues(config)[1] ELSE TestOptionsIssues(use)[1]

StructuralTexts ==
    {"Configuration file must export a single object", "config.tsconfig does not exist"}
    \cup {error.title \o " must be an object", error.title \o ".use must be an object"}
    \cup {error.option \o " must be a string or a RegExp"}

\* C11: a validation failure is one error that carries the config file, or
\* '<default config>' when no file was resolved; it is built from the first
\* issue only; it has a Received line exactly when that issue is a wrong-type,
\* wrong-value or out-of-range issue, and none for the structural errors and
\* for any other issue kind, whose option name is the dotted path, or
\* 'configuration' when the top-level path is empty.
C11_ErrorShape ==
    ValidationFailure =>
        /\ error.file = (IF location.resolvedConfigFile = Undef
                         THEN Str("<default config>") ELSE location.resolvedConfigFile)
        /\ error.kind = "structural" =>
               (~error.hasReceived /\ error.text \in StructuralTexts)
        /\ error.kind = "schema" =>
               /\ error.code = FirstReported.code
               /\ error.path = FirstReported.path
               /\ error.hasReceived <=> error.code \in ReceivedCodes
               /\ (error.code \notin ReceivedCodes /\ error.title = "") =>
                      error.option = (IF error.path = <<>> THEN "configuration"
                                      ELSE JoinPath(error.path))

\* An issue of another kind (a union that matched no option) in config.use is
\* reported with the file and without a Received line.
C11_Witness ==
    /\ ValidationFailure
    /\ error.kind = "schema" /\ error.code = "invalid_union"
    /\ error.option = "config.use.viewport"
    /\ ~error.hasReceived
    /\ error.file = Path(TRUE, ConfigDir \o <<"playwright.config.ts">>)

-----------------------------------------------------------------------------
(* Properties of resolveConfigLocation *)

\* The target: the explicit path resolved against the working directory, or
\* the working directory when no path is given.
TargetPath == IF configFile = Undef THEN Cwd ELSE PathResolve(<<Cwd, configFile>>)

Min(S) == CHOOSE n \in S : \A m \in S : n <= m

PriorityOrder == <<".ts", ".js", ".mts", ".mjs", ".cts", ".cjs">>

\* The ranks, in the priority order, of the config files the target directory holds.
Found ==
    {n \in 1..Len(PriorityOrder) :
        TargetPath.v \o <<"playwright.config" \o PriorityOrder[n]>> \in disk.dirs \cup disk.files}

\* C12: for a target that is a directory the call returns; the resolved file is
\* playwright.config with the first extension of the priority order present in
\* that directory and configDir is the directory; with no such file the
\* resolved file is absent and configDir is the directory.
C12_DirectorySearch ==
    (pc # "resolveConfigLocation" /\ TargetPath.v \in disk.dirs) =>
        /\ pc = "resolved"
        /\ location.configDir = TargetPath
        /\ location.resolvedConfigFile =
               (IF Found = {} THEN Undef
                ELSE Path(TRUE, TargetPath.v
                                  \o <<"playwright.config" \o PriorityOrder[Min(Found)]>>))

\* The working directory holds .js, .mts and .cjs configs and no .ts one: the
\* .js file is resolved.
C12_Witness ==
    /\ pc = "resolved" /\ configFile = Undef
    /\ Found = {2, 3, 6}
    /\ location.resolvedConfigFile = Path(TRUE, <<"repo", "playwright.config.js">>)
    /\ location.configDir = Cwd

\* C13: the call fails, with an error naming the target, exactly when the
\* target does not exist; a target that is a file is the resolved config file
\* whatever its name, and configDir is its parent directory.
C13_MissingOrFile ==
    pc # "resolveConfigLocation" =>
        /\ pc = "thrown" <=> TargetPath.v \notin disk.dirs \cup disk.files
        /\ pc = "thrown" =>
               (error.kind = "location" /\ error.path = TargetPath
                /\ error.text = "does not exist" /\ location = NoLocation)
        /\ TargetPath.v \in disk.files =>
               /\ location.resolvedConfigFile = TargetPath
               /\ location.configDir
                      = Path(TRUE, SubSeq(TargetPath.v, 1, Len(TargetPath.v) - 1))

\* An explicitly given file that is not named playwright.config.* is resolved.
C13_Witness ==
    /\ pc = "resolved"
    /\ configFile = Path(FALSE, <<".", "tests", "custom.conf">>)
    /\ location.resolvedConfigFile = Path(TRUE, <<"repo", "tests", "custom.conf">>)
    /\ location.configDir = Path(TRUE, <<"repo", "tests">>)

-----------------------------------------------------------------------------
(* Properties of loadConfig *)

\* C14: once the raw load or validateConfig has failed, loadConfig takes no
\* further step: no full configuration is constructed, the dependency
\* stripping and the transform configuration are not reached, nothing is
\* validated a second time; and a full configuration exists only after
\* validateConfig ran all its checks on the loaded object without an error.
C14_AbortOnFailure ==
    /\ [](pc = "thrown" => (fullConfig = Undef /\ transform = Undef))
    /\ [](validations <= 1)
    /\ [](fullConfig # Undef =>
              /\ error = NoError
              /\ validations = 1
              /\ fullConfig.userConfig = config
              /\ checks = FixedOrder(config)
              /\ AllValid(config))
    /\ [](transform # Undef => fullConfig # Undef)
    /\ [](pc = "loaded" => (fullConfig # Undef /\ transform # Undef /\ transform.sentToLoader))
    /\ [][pc # "thrown"]_vars

\* A schema violation stopped the load before anything was constructed.
C14_Witness ==
    /\ pc = "thrown" /\ error.kind = "schema"
    /\ validations = 1
    /\ Len(configs) = 2
    /\ fullConfig = Undef /\ transform = Undef

\* A composed configuration was validated and returned.
C14_WitnessLoaded ==
    /\ pc = "loaded" /\ Len(configs) = 2
    /\ fullConfig.userConfig = result
    /\ transform.sentToLoader

Marked(c) == Get(c, kDefineConfigWasUsed) = Bool(TRUE)

\* C15: what defineConfig returns carries the marker, for one fragment (the
\* result then has the keys and values of that fragment) as for several; a
\* fragment that carries the marker, being a result of defineConfig itself,
\* passes it on to the accumulator; and loadConfig sets defineConfigWasUsed to
\* true exactly when the loaded object carries the marker, which a plainly
\* exported object does not.
C15_Marker ==
    /\ [](Returned => Marked(result))
    /\ []((pc = "loop" /\ \E j \in 1..i : Marked(configs[j])) => Marked(result))
    /\ [][(pc = "loop" /\ pc' = "return" /\ Len(configs) = 1) =>
              /\ ConfigKeys(result') = ConfigKeys(configs[1])
              /\ \A k \in ConfigKeys(configs[1]) : Get(result', k) = Get(configs[1], k)]_vars
    /\ [](fullConfig # Undef =>
              /\ fullConfig.defineConfigWasUsed = Marked(fullConfig.userConfig)
              /\ (Len(configs) >= 2 \/ Marked(configs[1])) <=> fullConfig.defineConfigWasUsed)

\* defineConfig of a single fragment was loaded: the flag is set and the
\* configuration has the fragment's one key.
C15_Witness ==
    /\ pc = "loaded" /\ Len(configs) = 1
    /\ ConfigKeys(config) = {"tsconfig"}
    /\ Marked(config)
    /\ fullConfig.defineConfigWasUsed

\* A plainly exported object was loaded: the flag is not set.
C15_WitnessPlain ==
    /\ pc = "loaded" /\ Len(configs) = 1
    /\ ConfigKeys(config) = {"tsconfig"}
    /\ ~Marked(config)
    /\ ~fullConfig.defineConfigWasUsed

-----------------------------------------------------------------------------
(* Properties of the fold of defineConfig *)

ProjectList(n) == OrEmpty(Get(configs[n], "projects"))

\* The third fragment has been folded in.
ThirdFolded == pc = "loop" /\ i = 3

\* The names fragment 2 brought in (fragment 1 has no project of that name)
\* that fragment 3 uses again.
AppendedThenNamed ==
    (Names(ProjectList(2)) \ Names(ProjectList(1))) \cap Names(ProjectList(3))

PositionsOf(ps, name) == {q \in 1..Len(ps) : NameOf(ps[q]) = name}

\* C16: a project that fragment 2 appended and fragment 3 names again stands,
\* after the second step, once in the list behind the projects of fragment 1;
\* the third step replaces it at that position by its merge with fragment 3's
\* project of that name, and appends no further project of that name.
C16_FoldUsesPrevious ==
    ThirdFolded =>
        \A name \in AppendedThenNamed :
            /\ Cardinality(PositionsOf(Base, name)) = 1
            /\ PositionsOf(Out, name) = PositionsOf(Base, name)
            /\ \A q \in PositionsOf(Base, name) :
                   /\ q > Len(ProjectList(1))
                   /\ Base[q] = ProjectList(2)[LastNamed(ProjectList(2), name)]
                   /\ Out[q] = Overridden(Base[q],
                                          ProjectList(3)[LastNamed(ProjectList(3), name)])

\* Fragment 2 appends project b to the one project of fragment 1, fragment 3
\* gives b a use: b stays second and holds the keys of both.
C16_Witness ==
    /\ ThirdFolded
    /\ "b" \in {n.v : n \in AppendedThenNamed}
    /\ Len(ProjectList(1)) = 1
    /\ NameOf(Out[2]) = Str("b")
    /\ Get(Out[2], "retries") = Num(2)
    /\ Get(Out[2], "use") = Obj([x |-> Num(1)])
    /\ Out[2] # Base[2]

-----------------------------------------------------------------------------
(* Properties of the tsconfig check *)

\* The tsconfig check applies: config.tsconfig is a non-empty string.
TsconfigApplies == Get(config, "tsconfig").t = "string" /\ Get(config, "tsconfig").v # ""

\* The path of config.tsconfig taken relative to the directory of the config file.
TsconfigInConfigDir ==
    Normalize(ToPath(Get(config, "tsconfig")).v, location.configDir.v)

TsconfigMissing == TsconfigInConfigDir \notin disk.dirs \cup disk.files

\* Every check before the tsconfig check passes.
EarlierChecksPass ==
    /\ TypeofObject(config) /\ Truthy(config)
    /\ ~TopViolated(config)
    /\ ValidateProject(config, "config") = NoError
    /\ ~UseViolated(config)
    /\ \A m \in 0..(Len(ProjectsOf(config)) - 1) : ~ProjectViolated(config, m)

TsconfigError ==
    /\ pc = "thrown" /\ error.kind = "structural"
    /\ error.text = "config.tsconfig does not exist"

\* C17: the tsconfig check is run exactly when tsconfig is a non-empty string
\* and every other check has passed, and it is the last check; it fails, with
\* 'config.tsconfig does not exist', exactly when the path, taken relative to
\* the directory of the config file, is not on disk; a candidate with a
\* project violation and a missing tsconfig file is reported for the project.
C17_TsconfigLast ==
    (Finished /\ validations = 1) =>
        /\ (\E n \in 1..Len(checks) : checks[n] = "tsconfig")
               <=> (TsconfigApplies /\ EarlierChecksPass)
        /\ \A n \in 1..Len(checks) : checks[n] = "tsconfig" => n = Len(checks)
        /\ TsconfigError <=> (TsconfigApplies /\ EarlierChecksPass /\ TsconfigMissing)
        /\ \A m \in 0..(Len(ProjectsOf(config)) - 1) :
               ( /\ TsconfigApplies /\ TsconfigMissing
                 /\ ~TopViolated(config)
                 /\ ValidateProject(config, "config") = NoError
                 /\ ProjectViolated(config, m) ) =>
                   (pc = "thrown" /\ ~TsconfigError /\ error.kind = "structural"
                    /\ error.title \in {ProjectTitle(l) : l \in 0..m})

\* tsconfig.json lies in the working directory and not next to the config
\* file in <cwd>/tests: './tsconfig.json' is reported missing.
C17_Witness ==
    /\ TsconfigError
    /\ disk = TsconfigInCwd
    /\ Get(config, "tsconfig") = Str("./tsconfig.json")
    /\ Last(checks) = "tsconfig"
    /\ error.file = location.resolvedConfigFile

\* A project violation next to a missing tsconfig file: the project is reported.
C17_WitnessProject ==
    /\ pc = "thrown" /\ error.kind = "structural"
    /\ TsconfigApplies /\ TsconfigMissing
    /\ error.title = "config.projects[0]"
    /\ Last(checks) = "config.projects[0]"

\* '../tsconfig.json' is found in the working directory, above the config file.
C17_WitnessParent ==
    /\ pc = "validated" /\ disk = TsconfigInCwd
    /\ Get(config, "tsconfig") = Str("../tsconfig.json")
    /\ Last(checks) = "tsconfig"

-----------------------------------------------------------------------------
(* Properties of the project list across a fold step, and of the arguments *)

\* The fragment of the step supplies no project list.
NoProjectList == Get(configs[i], "projects").t \in {"undefined", "null"}

\* C18: a fold step whose fragment supplies no project list (no projects key,
\* or one that is undefined or null) leaves the accumulator's project list as
\* it was, and an accumulator that had projects still has them.
C18_ProjectsPassThrough ==
    (Folded /\ NoProjectList) =>
        /\ Get(result, "projects") = prevProjects
        /\ Truthy(prevProjects) => Truthy(Get(result, "projects"))

\* C19: in a fold step, every base project whose name a project of the
\* fragment has is replaced by its merge with a project of that name of the
\* fragment, also when several base projects share the name.
C19_AllMatchesMerged ==
    (Folded /\ Override # <<>>) =>
        \A m \in 1..Len(Base) :
            NameOf(Base[m]) \in Names(Override) =>
                /\ m <= Len(Out)
                /\ \E n \in 1..Len(Override) :
                       /\ NameOf(Override[n]) = NameOf(Base[m])
                       /\ Out[m] = Overridden(Base[m], Override[n])

\* C20: no step of defineConfig changes a fragment passed to it: each has the
\* keys and values it had before the call.
C20_FragmentsUnchanged == [][configs' = configs]_vars

====
